---- MODULE Spec2Model ----
(***************************************************************************)
(* Model of the translation cache: TranslateService (the Coordinator) and  *)
(* TranslationDBService (the Persistent Store Adapter), with the IndexedDB *)
(* database, the remote endpoint and the calling application as the        *)
(* environment.  One action is one event-loop task together with the       *)
(* promise continuations (microtasks) that run to completion after it.     *)
(***************************************************************************)
EXTENDS Integers, Sequences, FiniteSets, TLC

\* ------------------------------------------------------------------ bounds
MaxTranslateCalls == 1
MaxClearCalls == 1
\* requests an application using the adapter directly has pending at once
MaxStoreRequests == 2

\* -------------------------------------------------------------- data model
\* JavaScript's undefined, as a language code: property access coerces it to
\* the string "undefined" (translation[undefined] reads translation["undefined"]).
Undefined == "undefined"

\* A TranslationValue is an object; its own keys keep insertion order, so a
\* record is the sequence of its (language, text) entries.
Entry(l, t) == [lang |-> l, text |-> t]

\* A text is the concatenation of its pieces; a piece is a {name} placeholder
\* or literal text without braces.
Placeholder(name) == "{" \o name \o "}"

RECURSIVE Join(_)
Join(pieces) == IF pieces = << >> THEN "" ELSE Head(pieces) \o Join(Tail(pieces))

\* The texts of the model that hold placeholders, by their pieces.
Templates ==
  { << "Bonjour ", Placeholder("a"), " ", Placeholder("c") >>,
    << Placeholder("b") >> }

\* The pieces of a string: where the placeholders of the string are.
Pieces(str) ==
  IF \E t \in Templates : Join(t) = str
    THEN CHOOSE t \in Templates : Join(t) = str
    ELSE IF str = "" THEN << >> ELSE << str >>

RecEnFr == << Entry("en", "Hello"), Entry("fr", "Bonjour") >>
RecFrEn == << Entry("fr", "Bonjour {a} {c}"), Entry("en", "") >>
RecFr == << Entry("fr", "Salut") >>
RecNone == << >>
Records == {RecEnFr, RecFrEn, RecFr, RecNone}

Keys == {"", "HELLO", "WORLD"}
\* the keys the application looks up
LookupKeys == {"HELLO"}
\* IndexedDB returns keys (and values) in ascending key order.
KeyOrder == << "", "HELLO", "WORLD" >>

EmptyTable == [k \in {} |-> RecNone]
TableOf(k, r) == [x \in {k} |-> r]
\* mutant: add instead of put, a key already present keeps its record
TablePut_Add(t, k, r) ==
  [x \in (DOMAIN t) \cup {k} |-> IF x \in DOMAIN t THEN t[x] ELSE r]

TablePut(t, k, r) == [x \in (DOMAIN t) \cup {k} |-> IF x = k THEN r ELSE t[x]]

\* Tables the remote endpoint may answer with.
ResponseTables ==
  { EmptyTable,
    TableOf("HELLO", RecNone),
    TablePut(TableOf("HELLO", RecFrEn), "WORLD", RecEnFr) }

\* Tables an earlier run may have left in the persistent store.
StoredTables ==
  { EmptyTable,
    TablePut(TableOf("", RecEnFr), "HELLO", RecFr) }

\* Configurations handed to init; hasList = FALSE is a configuration object
\* without the acceptedLanguages property.
Config(h, a, d) == [hasList |-> h, acceptedLanguages |-> a, defaultLang |-> d]
Configs ==
  { Config(TRUE, << "en", "fr" >>, "en"),
    Config(TRUE, << "en", "fr" >>, "de"),
    Config(TRUE, << >>, "en"),
    Config(FALSE, << >>, "en") }

\* Keys and records an application using the adapter directly works with.
StoreKeys == {"", "HELLO", "WORLD"}
StoreRecords == {RecEnFr, RecNone}

LangArgs == {"fr", "de"}
\* the setLanguage calls of one task of the application, in the order they
\* are issued: one call, or two calls without awaiting the first
LangCalls ==
  { << l >> : l \in LangArgs } \cup { << l1, l2 >> : l1, l2 \in LangArgs }

\* The params argument of instant: absent, or an object whose own keys keep
\* insertion order.  The names are identifiers.
Param(n, v) == [name |-> n, value |-> v]
NoParams == [given |-> FALSE, entries |-> << >>]
Params(e) == [given |-> TRUE, entries |-> e]
ParamArgs ==
  { NoParams,
    Params(<< Param("a", "{b}"), Param("b", "X") >>) }

VARIABLES
  currentLang,        \* TranslateService.currentLang
  acceptedLanguages,  \* TranslateService.acceptedLanguages
  translations,       \* TranslateService.translations (the in-memory table)
  loadingState,       \* TranslateService.loadingState.value
  langChangeSubject,  \* TranslateService.langChangeSubject.value
  initPromise,        \* TranslateService.initPromise: "null", "pending", "resolved", "rejected"
  db,                 \* TranslationDBService.db: "undefined", "open", "closed", "null"
  idb,                \* contents of the IndexedDB object store
  storeHealth,        \* "ok", or "broken": every request on the store fails
  txQueue,            \* IndexedDB requests issued and not yet completed, oldest first
  loadPc,             \* position of the init closure
  fetchResult,        \* what the remote fetch produced: "none", "ok", "notok", "neterr"
  fetchData,          \* the table parsed from the response (data, line 300)
  loadEntries,        \* getAllFromCache: the values read, while the keys are being read
  clearWaiters,       \* number of cache-clear calls suspended on initPromise
  initCallers,        \* how the promises of the init calls made so far are bound
  openCount,          \* number of openDB calls made
  fetchCount,         \* number of fetch calls made
  ret,                \* the results the application received last: the return of a
                      \* call, or the translate promises settled by one event
  waiting,            \* keys of translate calls suspended on initPromise
  pipe                \* the subscription to the Observable of TranslatePipe.transform
                      \* bound in a template, with the last value it emitted

vars == << currentLang, acceptedLanguages, translations, loadingState,
           langChangeSubject, initPromise, db, idb, storeHealth, txQueue,
           loadPc, fetchResult, fetchData, loadEntries, clearWaiters, initCallers, openCount,
           fetchCount, ret, waiting, pipe >>

coordVars == << currentLang, acceptedLanguages, translations, loadingState,
                langChangeSubject, initPromise >>
storeVars == << db, idb, storeHealth, txQueue >>
loadVars == << loadPc, fetchResult, fetchData, loadEntries >>
callVars == << initCallers, openCount, fetchCount, pipe >>
obsVars == << ret, waiting >>

\* ------------------------------------------------------------ pure helpers
HasLang(r, l) == \E i \in 1..Len(r) : r[i].lang = l
TextOf(r, l) == r[CHOOSE i \in 1..Len(r) : r[i].lang = l].text

\* acceptedLanguages[0]
FirstAccepted(acc) == IF Len(acc) > 0 THEN acc[1] ELSE Undefined

\* acceptedLanguages.includes(lang)
Includes(acc, l) == \E i \in 1..Len(acc) : acc[i] = l

\* mutant: the last resort is the empty string instead of the key
getTranslationFallback_NoKey(tr, acc, key) ==
  IF key \in DOMAIN tr
    THEN LET translation == tr[key]
             d == FirstAccepted(acc)
         IN  IF HasLang(translation, d) /\ TextOf(translation, d) # ""
               THEN TextOf(translation, d)
               ELSE IF Len(translation) > 0
                      THEN translation[1].text
                      ELSE ""
    ELSE ""

getTranslationFallback(tr, acc, key) ==
  IF key \in DOMAIN tr
    THEN LET translation == tr[key]
             d == FirstAccepted(acc)
         IN  IF HasLang(translation, d) /\ TextOf(translation, d) # ""
               THEN TextOf(translation, d)
               ELSE IF Len(translation) > 0
                      THEN translation[1].text
                      ELSE key
    ELSE key

\* mutant: value || fallback instead of value ?? fallback
getTranslation_Or(tr, acc, lang, key) ==
  IF key \notin DOMAIN tr
    THEN getTranslationFallback(tr, acc, key)
    ELSE LET translation == tr[key]
         IN  IF HasLang(translation, lang) /\ TextOf(translation, lang) # ""
               THEN TextOf(translation, lang)
               ELSE getTranslationFallback(tr, acc, key)

getTranslation(tr, acc, lang, key) ==
  IF key \notin DOMAIN tr
    THEN getTranslationFallback(tr, acc, key)
    ELSE LET translation == tr[key]
         IN  IF HasLang(translation, lang)
               THEN TextOf(translation, lang)
               ELSE getTranslationFallback(tr, acc, key)

isLanguageSupported(loading, acc, lang) ==
  IF loading THEN TRUE ELSE Includes(acc, lang)

\* mutant: an unsupported language is kept
ResolvedLang_Keep(loading, acc, lang) == lang

\* The language setLanguage ends up with.
ResolvedLang(loading, acc, lang) ==
  IF isLanguageSupported(loading, acc, lang) THEN lang ELSE FirstAccepted(acc)

Ret(o, k, v, out) == [op |-> o, key |-> k, val |-> v, outcome |-> out]

\* mutant: the stream drops a value equal to the one before it
langChangeNext_Distinct(subject, lang) ==
  IF subject # lang THEN << Ret("onLangChange", "", lang, "next") >> ELSE << >>

\* langChangeSubject.next(lang), with the subject holding the value subject:
\* what the subscribers of onLangChange receive
langChangeNext(subject, lang) == << Ret("onLangChange", "", lang, "next") >>

\* The setLanguage calls of one task.  A call made when Ready is suspended on
\* initPromise and its continuation is queued; the continuations run in the
\* order they were queued.  A call made earlier runs to its end at once.
\* The result is the languages set, in the order they are set.
RECURSIVE runSetLanguage(_, _, _)
runSetLanguage(loading, acc, calls) ==
  IF calls = << >> THEN << >>
  ELSE << ResolvedLang(loading, acc, Head(calls)) >>
         \o runSetLanguage(loading, acc, Tail(calls))

\* the notifications of the languages set, each sent after the one before it
RECURSIVE notifications(_, _)
notifications(subject, set) ==
  IF set = << >> THEN << >>
  ELSE langChangeNext(subject, Head(set)) \o notifications(Head(set), Tail(set))

\* no pipe is bound
NoPipe == [subscribed |-> FALSE, key |-> "", params |-> NoParams, value |-> "",
           loading |-> FALSE]

Init ==
  /\ currentLang = "en"
  /\ acceptedLanguages = << >>
  /\ translations = EmptyTable
  /\ loadingState = TRUE
  /\ langChangeSubject = "en"
  /\ initPromise = "null"
  /\ db = "undefined"
  /\ idb \in StoredTables
  /\ storeHealth \in {"ok", "broken"}
  \* what a store that fails every request holds is never seen
  /\ storeHealth = "broken" => idb = EmptyTable
  /\ txQueue = << >>
  /\ loadPc = "none"
  /\ fetchResult = "none"
  /\ fetchData = EmptyTable
  /\ loadEntries = << >>
  /\ clearWaiters = 0
  /\ initCallers = {}
  /\ openCount = 0
  /\ fetchCount = 0
  /\ ret = << >>
  /\ waiting = << >>
  /\ pipe = NoPipe

\* --------------------------------------------------------- IndexedDB model
\* ready: for a request of a cache-clear, whether the call was made when Ready
Req(o, k, v, r) == [op |-> o, key |-> k, value |-> v, ready |-> r]

SortedKeys(t) == SelectSeq(KeyOrder, LAMBDA k : k \in DOMAIN t)
\* db.getAll: the values, by ascending key
AllEntries(t) == [i \in 1..Len(SortedKeys(t)) |-> t[SortedKeys(t)[i]]]

HasPut(q) == \E i \in 1..Len(q) : q[i].op = "put"

\* mutant: a put merges the new record into the one already stored
dbPut_Merge(store, key, value) ==
  [x \in (DOMAIN store) \cup {key} |->
     IF x # key THEN store[x]
     ELSE IF key \in DOMAIN store THEN store[key] \o value ELSE value]

\* db.put(STORE_NAME, value, key): the record stored under key becomes value,
\* every other record stays as it is.
dbPut(store, key, value) ==
  [x \in (DOMAIN store) \cup {key} |-> IF x # key THEN store[x] ELSE value]

\* ------------------------------------------------- TranslationDBService
\* mutant: the catch of the adapter's init rethrows
dbInitOutcome_Rethrow(openOk) == IF openOk THEN "opened" ELSE "thrown"

\* init: what the adapter's init does with the outcome of openDB; the catch
\* logs and returns.
dbInitOutcome(openOk) == IF openOk THEN "opened" ELSE "swallowed"

\* getAllFromCache: the reduce over the values, pairing value i with key i;
\* a missing or falsy (empty) key is skipped.
getAllFromCache(entries, keys) ==
  LET idx == {i \in 1..Len(entries) : i <= Len(keys) /\ keys[i] # ""}
  IN  [k \in {keys[i] : i \in idx} |->
         entries[CHOOSE i \in idx : keys[i] = k]]

\* ------------------------------------------------------ TranslateService
\* mutant: the entry reaches memory only when the write succeeded
afterSave_OnlyIfSaved(tr, key, value, saved) ==
  IF saved THEN TablePut(tr, key, value) ELSE tr

\* loadTranslations, per entry: the table after saveToCache has returned
\* (saveToCache swallows a failed write) and translations.set has run.
afterSave(tr, key, value, saved) == TablePut(tr, key, value)

RECURSIVE SetEach(_, _, _, _)
SetEach(tr, data, ks, saved) ==
  IF ks = << >> THEN tr
  ELSE SetEach(afterSave(tr, Head(ks), data[Head(ks)], saved), data, Tail(ks), saved)

\* loadFromCache: merge the cached table into memory when it is not empty
loadFromCache(tr, cached) ==
  IF DOMAIN cached # {}
    THEN [k \in (DOMAIN tr) \cup (DOMAIN cached) |->
            IF k \in DOMAIN cached THEN cached[k] ELSE tr[k]]
    ELSE tr

\* mutant: instant ignores the loading flag
instantResult_NoLoading(ip, loading, tr, acc, lang, key) ==
  IF ip = "null" THEN key
  ELSE getTranslation(tr, acc, lang, key)

\* str.replace(new RegExp(`{${param}}`, 'g'), value), on the pieces of str
RECURSIVE replaceAll(_, _, _)
replaceAll(pieces, param, value) ==
  IF pieces = << >> THEN << >>
  ELSE (IF Head(pieces) = Placeholder(param) THEN Pieces(value)
                                              ELSE << Head(pieces) >>)
         \o replaceAll(Tail(pieces), param, value)

\* Object.keys(params).reduce(..., translation)
RECURSIVE reduceParams(_, _)
reduceParams(pieces, entries) ==
  IF entries = << >> THEN pieces
  ELSE reduceParams(replaceAll(pieces, Head(entries).name, Head(entries).value),
                    Tail(entries))

replaceParams(translation, params) ==
  IF ~params.given THEN translation
  ELSE Join(reduceParams(Pieces(translation), params.entries))

\* instant, lines 140-148: the lookup, before replaceParams
instantResult(ip, loading, tr, acc, lang, key) ==
  IF ip = "null" THEN key
  ELSE IF loading THEN getTranslationFallback(tr, acc, key)
  ELSE getTranslation(tr, acc, lang, key)

\* TranslatePipe.transform, map(() => instant(key, params)): what instant
\* returns
pipeMap(ip, loading, tr, acc, lang, key, params) ==
  LET translation == instantResult(ip, loading, tr, acc, lang, key)
  IN  IF ip = "null" THEN translation ELSE replaceParams(translation, params)

\* an emission of onLangChange reaches the pipe: the bound value is
\* evaluated again
pipeNext(p, ip, loading, tr, acc, lang) ==
  IF p.subscribed
    THEN [p EXCEPT !.value = pipeMap(ip, loading, tr, acc, lang, p.key, p.params)]
    ELSE p

\* what a translate call gets once waitForInitialization has settled
TranslateResult(ip, tr, acc, lang, key) ==
  IF ip = "rejected"
    THEN Ret("translate", key, "", "rejected")
    ELSE Ret("translate", key, getTranslation(tr, acc, lang, key), "resolved")

\* a cache-clear call reaches waitForInitialization: it is suspended while
\* initPromise is pending and returns otherwise
AwaitInit == clearWaiters' = IF initPromise = "pending" THEN clearWaiters + 1
                                                         ELSE clearWaiters

\* cache-clear calls that have not returned
ClearsInFlight ==
  clearWaiters + Len(SelectSeq(txQueue, LAMBDA q : q.op \in {"clear", "delete"}))

\* mutant: the closure returns without loadingState.next(false)
FinishLoad_StillLoading(tr) ==
  /\ translations' = tr
  /\ loadingState' = loadingState
  /\ initPromise' = "resolved"
  /\ loadPc' = "done"
  /\ ret' = IF waiting = << >> THEN ret
            ELSE [i \in 1..Len(waiting) |->
                    TranslateResult("resolved", tr, acceptedLanguages, currentLang, waiting[i])]
  /\ waiting' = << >>
  /\ clearWaiters' = 0

\* init, lines 83-84 and the return of the closure: the load sequence has
\* returned with table tr; loadingState.next(false), initPromise resolves and
\* every continuation waiting on it runs.
FinishLoad(tr) ==
  /\ translations' = tr
  /\ loadingState' = FALSE
  /\ initPromise' = "resolved"
  /\ loadPc' = "done"
  /\ ret' = IF waiting = << >> THEN ret
             ELSE [i \in 1..Len(waiting) |->
                     TranslateResult("resolved", tr, acceptedLanguages, currentLang, waiting[i])]
  /\ waiting' = << >>
  /\ clearWaiters' = 0

\* init, lines 85-89: the catch of the closure
FailLoad ==
  /\ loadingState' = FALSE
  /\ initPromise' = "rejected"
  /\ loadPc' = "done"
  /\ ret' = IF waiting = << >> THEN ret
             ELSE [i \in 1..Len(waiting) |->
                     TranslateResult("rejected", translations, acceptedLanguages, currentLang, waiting[i])]
  /\ waiting' = << >>
  /\ clearWaiters' = 0
  /\ UNCHANGED translations

\* mutant: a later init call sets the loading flag again
init_Again(config) ==
  /\ IF initPromise # "null"
       THEN /\ initCallers' = initCallers \cup {"shared"}
            /\ loadingState' = TRUE
            /\ UNCHANGED << currentLang, acceptedLanguages, translations,
                            langChangeSubject, initPromise, storeVars, loadVars,
                            clearWaiters, openCount, fetchCount, pipe, obsVars >>
       ELSE IF ~config.hasList
         THEN \* validateConfig: config.acceptedLanguages.includes throws
              /\ initCallers' = initCallers \cup {"threw"}
              /\ UNCHANGED << coordVars, storeVars, loadVars, clearWaiters, openCount,
                              fetchCount, pipe, obsVars >>
         ELSE /\ initCallers' = initCallers \cup {"shared"}
              /\ acceptedLanguages' = config.acceptedLanguages
              /\ currentLang' = ResolvedLang(loadingState, config.acceptedLanguages,
                                             config.defaultLang)
              /\ langChangeSubject' = currentLang'
              /\ initPromise' = "pending"
              /\ openCount' = openCount + 1
              /\ loadPc' = "open"
              /\ ret' = langChangeNext(langChangeSubject, currentLang')
              \* setLanguage runs before initPromise is assigned
              /\ pipe' = pipeNext(pipe, initPromise, loadingState, translations,
                                  acceptedLanguages', currentLang')
              /\ UNCHANGED << translations, loadingState, storeVars, fetchResult,
                              fetchData, loadEntries, clearWaiters, fetchCount,
                              waiting >>

init(config) ==
  /\ IF initPromise # "null"
       THEN /\ initCallers' = initCallers \cup {"shared"}
            /\ UNCHANGED << coordVars, storeVars, loadVars, clearWaiters, openCount,
                            fetchCount, pipe, obsVars >>
       ELSE IF ~config.hasList
         THEN \* validateConfig: config.acceptedLanguages.includes throws
              /\ initCallers' = initCallers \cup {"threw"}
              /\ UNCHANGED << coordVars, storeVars, loadVars, clearWaiters, openCount,
                              fetchCount, pipe, obsVars >>
         ELSE /\ initCallers' = initCallers \cup {"shared"}
              /\ acceptedLanguages' = config.acceptedLanguages
              /\ currentLang' = ResolvedLang(loadingState, config.acceptedLanguages,
                                             config.defaultLang)
              /\ langChangeSubject' = currentLang'
              /\ initPromise' = "pending"
              /\ openCount' = openCount + 1
              /\ loadPc' = "open"
              /\ ret' = langChangeNext(langChangeSubject, currentLang')
              \* setLanguage runs before initPromise is assigned
              /\ pipe' = pipeNext(pipe, initPromise, loadingState, translations,
                                  acceptedLanguages', currentLang')
              /\ UNCHANGED << translations, loadingState, storeVars, fetchResult,
                              fetchData, loadEntries, clearWaiters, fetchCount,
                              waiting >>

\* openDB's blocked callback: the open request stays pending
OpenBlocked ==
  /\ loadPc = "open"
  /\ loadPc' = "openBlocked"
  /\ UNCHANGED << coordVars, storeVars, fetchResult, fetchData, loadEntries,
                  clearWaiters, callVars, obsVars >>

\* openDB settles; dbService.init returns and loadTranslations calls fetch
DbInitSettles(openOk) ==
  /\ loadPc \in {"open", "openBlocked"}
  /\ IF dbInitOutcome(openOk) = "thrown"
       THEN /\ FailLoad
            /\ UNCHANGED << currentLang, acceptedLanguages, langChangeSubject,
                            storeVars, fetchResult, fetchData, loadEntries,
                            callVars >>
       ELSE /\ db' = IF openOk THEN "open" ELSE db
            /\ fetchCount' = fetchCount + 1
            /\ loadPc' = "fetch"
            /\ UNCHANGED << coordVars, idb, storeHealth, txQueue, fetchResult,
                            fetchData, loadEntries, clearWaiters, initCallers,
                            openCount, pipe, obsVars >>

OpenSucceeds == DbInitSettles(TRUE)
OpenFails == DbInitSettles(FALSE)

PutRequests(data) ==
  [i \in 1..Len(SortedKeys(data)) |->
     Req("put", SortedKeys(data)[i], data[SortedKeys(data)[i]], FALSE)]

\* the fetch resolved with an OK response whose body parsed to data
FetchOk(data) ==
  /\ loadPc = "fetch"
  /\ fetchResult' = "ok"
  /\ fetchData' = data
  /\ IF db = "open" /\ DOMAIN data # {}
       THEN /\ txQueue' = txQueue \o PutRequests(data)
            /\ loadPc' = "save"
            /\ UNCHANGED << coordVars, clearWaiters, obsVars >>
       ELSE \* every this.db.put throws at once and is swallowed
            /\ FinishLoad(SetEach(translations, data, SortedKeys(data), FALSE))
            /\ UNCHANGED << currentLang, acceptedLanguages, langChangeSubject,
                            txQueue >>
  /\ UNCHANGED << db, idb, storeHealth, loadEntries, callVars >>

\* the fetch resolved non-OK, or fetch / response.json() threw
FetchFails(outcome) ==
  /\ loadPc = "fetch"
  /\ fetchResult' = outcome
  /\ IF db = "open"
       THEN /\ txQueue' = Append(txQueue, Req("getAll", "", RecNone, FALSE))
            /\ loadPc' = "getAll"
            /\ UNCHANGED << coordVars, clearWaiters, obsVars >>
       ELSE \* this.db.getAll throws; getAllFromCache returns {}
            /\ FinishLoad(loadFromCache(translations, EmptyTable))
            /\ UNCHANGED << currentLang, acceptedLanguages, langChangeSubject,
                            txQueue >>
  /\ UNCHANGED << db, idb, storeHealth, fetchData, loadEntries, callVars >>

\* a put of the bulk load completes (or fails and is swallowed)
PutCompletes ==
  /\ txQueue # << >>
  /\ Head(txQueue).op = "put"
  /\ LET req == Head(txQueue)
         saved == storeHealth = "ok"
         tr == afterSave(translations, req.key, req.value, saved)
     IN  /\ idb' = IF saved THEN dbPut(idb, req.key, req.value) ELSE idb
         /\ txQueue' = Tail(txQueue)
         /\ IF HasPut(Tail(txQueue))
              THEN /\ translations' = tr
                   /\ UNCHANGED << loadingState, initPromise, loadPc, clearWaiters,
                                   obsVars >>
              ELSE FinishLoad(tr)
  /\ UNCHANGED << currentLang, acceptedLanguages, langChangeSubject, db,
                  storeHealth, fetchResult, fetchData, loadEntries, callVars >>

\* getAllFromCache: db.getAll completes, then db.getAllKeys is issued
GetAllCompletes ==
  /\ txQueue # << >>
  /\ Head(txQueue).op = "getAll"
  /\ IF storeHealth # "broken" /\ db = "open"
       THEN /\ loadEntries' = AllEntries(idb)
            /\ txQueue' = Append(Tail(txQueue), Req("getAllKeys", "", RecNone, FALSE))
            /\ loadPc' = "getAllKeys"
            /\ UNCHANGED << coordVars, clearWaiters, obsVars >>
       ELSE \* the read failed, or getAllKeys throws on the closed connection
            /\ txQueue' = Tail(txQueue)
            /\ FinishLoad(loadFromCache(translations, EmptyTable))
            /\ UNCHANGED << currentLang, acceptedLanguages, langChangeSubject,
                            loadEntries >>
  /\ UNCHANGED << db, idb, storeHealth, fetchResult, fetchData, callVars >>

GetAllKeysCompletes ==
  /\ txQueue # << >>
  /\ Head(txQueue).op = "getAllKeys"
  /\ txQueue' = Tail(txQueue)
  /\ loadEntries' = << >>
  /\ FinishLoad(loadFromCache(translations,
                              getAllFromCache(loadEntries, SortedKeys(idb))))
  /\ UNCHANGED << currentLang, acceptedLanguages, langChangeSubject, db, idb,
                  storeHealth, fetchResult, fetchData, callVars >>

\* ------------------------------------------------------------ cache clears
\* clearModuleCache: dbService.clearCache(), translations.clear(),
\* waitForInitialization()
clearModuleCache ==
  /\ ClearsInFlight < MaxClearCalls
  /\ IF db = "open"
       THEN /\ txQueue' = Append(txQueue, Req("clear", "", RecNone, ~loadingState))
            /\ UNCHANGED << translations, clearWaiters >>
       ELSE \* this.db.clear throws and is swallowed
            /\ translations' = EmptyTable
            /\ AwaitInit
            /\ UNCHANGED txQueue
  /\ UNCHANGED << currentLang, acceptedLanguages, loadingState, langChangeSubject,
                  initPromise, db, idb, storeHealth, loadVars, callVars, obsVars >>

\* clearAllCache: dbService.clearDB(), translations.clear(),
\* waitForInitialization()
clearAllCache ==
  /\ ClearsInFlight < MaxClearCalls
  /\ IF db \in {"open", "closed"}
       THEN \* clearDB: this.db.close(), then deleteDB is requested
            /\ db' = "closed"
            /\ txQueue' = Append(txQueue, Req("delete", "", RecNone, ~loadingState))
            /\ UNCHANGED << translations, clearWaiters >>
       ELSE /\ translations' = EmptyTable
            /\ AwaitInit
            /\ UNCHANGED << db, txQueue >>
  /\ UNCHANGED << currentLang, acceptedLanguages, loadingState, langChangeSubject,
                  initPromise, idb, storeHealth, loadVars, callVars, obsVars >>

\* db.clear completes (or fails and is swallowed); clearModuleCache goes on
ClearCompletes ==
  /\ txQueue # << >>
  /\ Head(txQueue).op = "clear"
  /\ idb' = IF storeHealth = "ok" THEN EmptyTable ELSE idb
  /\ txQueue' = Tail(txQueue)
  /\ translations' = EmptyTable
  /\ AwaitInit
  /\ UNCHANGED << currentLang, acceptedLanguages, loadingState, langChangeSubject,
                  initPromise, db, storeHealth, loadVars, callVars, obsVars >>

\* deleteDB completes (or fails and is swallowed); clearAllCache goes on
DeleteCompletes ==
  /\ txQueue # << >>
  /\ Head(txQueue).op = "delete"
  /\ IF storeHealth = "ok"
       THEN idb' = EmptyTable /\ db' = "null"
       ELSE UNCHANGED << idb, db >>
  /\ txQueue' = Tail(txQueue)
  /\ translations' = EmptyTable
  /\ AwaitInit
  /\ UNCHANGED << currentLang, acceptedLanguages, loadingState, langChangeSubject,
                  initPromise, storeHealth, loadVars, callVars, obsVars >>

\* openDB's blocking callback: another connection asks for a version change
Blocking ==
  /\ db = "open"
  /\ db' = "closed"
  /\ UNCHANGED << coordVars, idb, storeHealth, txQueue, loadVars, clearWaiters,
                  callVars, obsVars >>

\* ------------------------------------------------------------ lookup calls
InstantOp(params) == IF params.given THEN "instant+params" ELSE "instant"

instant(key, params) ==
  /\ LET translation == instantResult(initPromise, loadingState, translations,
                                      acceptedLanguages, currentLang, key)
     IN  ret' = << Ret(InstantOp(params), key,
                       IF initPromise = "null"
                         THEN translation  \* return key, line 143
                         ELSE replaceParams(translation, params),
                       "returned") >>
  /\ UNCHANGED << coordVars, storeVars, loadVars, clearWaiters, callVars, waiting >>

\* mutant: translate does not await initPromise
translate_NoWait(key) ==
  /\ ret' = << TranslateResult(initPromise, translations,
                                acceptedLanguages, currentLang, key) >>
  /\ UNCHANGED << coordVars, storeVars, loadVars, clearWaiters, callVars, waiting >>

translate(key) ==
  /\ IF initPromise = "pending"
       THEN /\ Len(waiting) < MaxTranslateCalls
            /\ waiting' = Append(waiting, key)
            /\ UNCHANGED ret
       ELSE /\ ret' = << TranslateResult(initPromise, translations,
                                          acceptedLanguages, currentLang, key) >>
            /\ UNCHANGED waiting
  /\ UNCHANGED << coordVars, storeVars, loadVars, clearWaiters, callVars >>

\* mutant: a language switch drops the in-memory table
setLanguage_DropsTable(langs) ==
  IF initPromise = "rejected" /\ ~loadingState
    THEN /\ ret' = [i \in 1..Len(langs) |-> Ret("setLanguage", langs[i], "", "rejected")]
         /\ UNCHANGED << coordVars, storeVars, loadVars, clearWaiters, callVars,
                         waiting >>
    ELSE LET set == runSetLanguage(loadingState, acceptedLanguages, langs)
         IN  /\ currentLang' = set[Len(set)]
             /\ langChangeSubject' = currentLang'
             /\ ret' = notifications(langChangeSubject, set)
                         \o [i \in 1..Len(langs) |->
                               Ret("setLanguage", langs[i], "", "resolved")]
             /\ translations' = EmptyTable
             /\ pipe' = pipeNext(pipe, initPromise, loadingState, translations,
                                 acceptedLanguages, currentLang')
             /\ UNCHANGED << acceptedLanguages, loadingState,
                             initPromise, storeVars, loadVars, clearWaiters,
                             initCallers, openCount, fetchCount, waiting >>

\* one task of the application issuing the setLanguage calls langs
setLanguage(langs) ==
  IF initPromise = "rejected" /\ ~loadingState
    THEN \* await this.initPromise rejects
         /\ ret' = [i \in 1..Len(langs) |-> Ret("setLanguage", langs[i], "", "rejected")]
         /\ UNCHANGED << coordVars, storeVars, loadVars, clearWaiters, callVars,
                         waiting >>
    ELSE LET set == runSetLanguage(loadingState, acceptedLanguages, langs)
         IN  /\ currentLang' = set[Len(set)]
             /\ langChangeSubject' = currentLang'
             /\ ret' = notifications(langChangeSubject, set)
                         \o [i \in 1..Len(langs) |->
                               Ret("setLanguage", langs[i], "", "resolved")]
             /\ pipe' = pipeNext(pipe, initPromise, loadingState, translations,
                                 acceptedLanguages, currentLang')
             /\ UNCHANGED << acceptedLanguages, translations, loadingState,
                             initPromise, storeVars, loadVars, clearWaiters,
                             initCallers, openCount, fetchCount, waiting >>

\* the application calls isLanguageSupported(lang)
callIsLanguageSupported(lang) ==
  /\ ret' = << Ret("isLanguageSupported", "",
                   isLanguageSupported(loadingState, acceptedLanguages, lang),
                   "returned") >>
  /\ UNCHANGED << coordVars, storeVars, loadVars, clearWaiters, callVars, waiting >>

\* mutant: a new subscriber is handed the initial value of the subject
subscribe_Initial ==
  /\ ret' = << Ret("subscribe", "", "en", "next") >>
  /\ UNCHANGED << coordVars, storeVars, loadVars, clearWaiters, callVars, waiting >>

\* onLangChange.subscribe(...): the BehaviorSubject replays its value to the
\* new subscriber, who from then on receives what every subscriber receives
subscribe ==
  /\ ret' = << Ret("subscribe", "", langChangeSubject, "next") >>
  /\ UNCHANGED << coordVars, storeVars, loadVars, clearWaiters, callVars, waiting >>

Next ==
  \/ \E config \in Configs : init(config)
  \/ OpenBlocked
  \/ OpenSucceeds
  \/ OpenFails
  \/ \E data \in ResponseTables : FetchOk(data)
  \/ \E outcome \in {"notok", "neterr"} : FetchFails(outcome)
  \/ PutCompletes
  \/ GetAllCompletes
  \/ GetAllKeysCompletes
  \/ clearModuleCache
  \/ clearAllCache
  \/ ClearCompletes
  \/ DeleteCompletes
  \/ Blocking
  \/ \E key \in LookupKeys, params \in ParamArgs : instant(key, params)
  \/ \E key \in LookupKeys : translate(key)
  \/ \E langs \in LangCalls : setLanguage(langs)
  \/ \E lang \in LangArgs : callIsLanguageSupported(lang)
  \/ subscribe

Spec == Init /\ [][Next]_vars

\* IndexedDB completes the requests of an open object store; the event loop
\* runs the continuations.  deleteDB may stay blocked by other connections.
StoreRequestCompletes ==
  PutCompletes \/ GetAllCompletes \/ GetAllKeysCompletes \/ ClearCompletes

FairSpec == Spec /\ WF_vars(StoreRequestCompletes)

\* ------------------------------------------- the adapter, used directly
\* The result of a read: the record found, or nothing.
Found(r) == << r >>
NotFound == << >>

\* TranslationDBService.init: openDB settles
dbServiceInit(openOk) ==
  /\ db = "undefined"
  /\ db' = IF dbInitOutcome(openOk) = "opened" THEN "open" ELSE db
  /\ ret' = << Ret("init", "", NotFound, IF dbInitOutcome(openOk) = "thrown"
                                           THEN "rejected" ELSE "resolved") >>
  /\ UNCHANGED << coordVars, idb, storeHealth, txQueue, loadVars, clearWaiters,
                  callVars, waiting >>

saveToCache(key, value) ==
  /\ Len(txQueue) < MaxStoreRequests
  /\ IF db = "open"
       THEN txQueue' = Append(txQueue, Req("put", key, value, FALSE)) /\ UNCHANGED ret
       ELSE \* this.db.put throws and is swallowed
            /\ ret' = << Ret("saveToCache", key, Found(value), "resolved") >>
            /\ UNCHANGED txQueue
  /\ UNCHANGED << coordVars, db, idb, storeHealth, loadVars, clearWaiters,
                  callVars, waiting >>

\* mutant: getFromCache has no catch, the error of this.db.get surfaces
getFromCache_Throws(key) ==
  /\ Len(txQueue) < MaxStoreRequests
  /\ IF db = "open"
       THEN txQueue' = Append(txQueue, Req("get", key, RecNone, FALSE)) /\ UNCHANGED ret
       ELSE /\ ret' = << Ret("getFromCache", key, NotFound, "rejected") >>
            /\ UNCHANGED txQueue
  /\ UNCHANGED << coordVars, db, idb, storeHealth, loadVars, clearWaiters,
                  callVars, waiting >>

getFromCache(key) ==
  /\ Len(txQueue) < MaxStoreRequests
  /\ IF db = "open"
       THEN txQueue' = Append(txQueue, Req("get", key, RecNone, FALSE)) /\ UNCHANGED ret
       ELSE \* this.db.get throws; the catch returns null
            /\ ret' = << Ret("getFromCache", key, NotFound, "resolved") >>
            /\ UNCHANGED txQueue
  /\ UNCHANGED << coordVars, db, idb, storeHealth, loadVars, clearWaiters,
                  callVars, waiting >>

clearCache ==
  /\ Len(txQueue) < MaxStoreRequests
  /\ IF db = "open"
       THEN txQueue' = Append(txQueue, Req("clear", "", RecNone, FALSE)) /\ UNCHANGED ret
       ELSE /\ ret' = << Ret("clearCache", "", NotFound, "resolved") >>
            /\ UNCHANGED txQueue
  /\ UNCHANGED << coordVars, db, idb, storeHealth, loadVars, clearWaiters,
                  callVars, waiting >>

\* db.put completes, or fails and is swallowed: saveToCache resolves
SaveCompletes ==
  /\ txQueue # << >>
  /\ Head(txQueue).op = "put"
  /\ LET req == Head(txQueue)
     IN  /\ idb' = IF storeHealth = "ok" THEN TablePut(idb, req.key, req.value) ELSE idb
         /\ ret' = << Ret("saveToCache", req.key, Found(req.value), "resolved") >>
  /\ txQueue' = Tail(txQueue)
  /\ UNCHANGED << coordVars, db, storeHealth, loadVars, clearWaiters, callVars, waiting >>

\* db.get completes: the record, or undefined; a failed read gives null
GetCompletes ==
  /\ txQueue # << >>
  /\ Head(txQueue).op = "get"
  /\ LET req == Head(txQueue)
     IN  ret' = << Ret("getFromCache", req.key,
                       IF storeHealth = "ok" /\ req.key \in DOMAIN idb
                         THEN Found(idb[req.key]) ELSE NotFound,
                       "resolved") >>
  /\ txQueue' = Tail(txQueue)
  /\ UNCHANGED << coordVars, db, idb, storeHealth, loadVars, clearWaiters, callVars,
                  waiting >>

\* db.clear completes, or fails and is swallowed: clearCache resolves
CacheClearCompletes ==
  /\ txQueue # << >>
  /\ Head(txQueue).op = "clear"
  /\ idb' = IF storeHealth = "ok" THEN EmptyTable ELSE idb
  /\ ret' = << Ret("clearCache", "", NotFound, "resolved") >>
  /\ txQueue' = Tail(txQueue)
  /\ UNCHANGED << coordVars, db, storeHealth, loadVars, clearWaiters, callVars, waiting >>

\* the db.getAllKeys request of a getAllFromCache call whose db.getAll gave
\* allEntries; readAt is history, the store as it was when the values were read
KeysReq(allEntries, store) ==
  [op |-> "getAllKeys", key |-> "", value |-> allEntries, ready |-> FALSE,
   readAt |-> store]

\* getAllFromCache called by the application
callGetAllFromCache ==
  /\ Len(txQueue) < MaxStoreRequests
  /\ IF db = "open"
       THEN txQueue' = Append(txQueue, Req("getAll", "", RecNone, FALSE)) /\ UNCHANGED ret
       ELSE \* this.db.getAll throws; the catch returns {}
            /\ ret' = << Ret("getAllFromCache", "", EmptyTable, "resolved") >>
            /\ UNCHANGED txQueue
  /\ UNCHANGED << coordVars, db, idb, storeHealth, loadVars, clearWaiters,
                  callVars, waiting >>

\* db.getAll completes: the values are kept (allEntries) and db.getAllKeys is
\* requested; a failed read, or a connection closed meanwhile, gives {}
ReadAllCompletes ==
  /\ txQueue # << >>
  /\ Head(txQueue).op = "getAll"
  /\ IF storeHealth = "ok" /\ db = "open"
       THEN /\ txQueue' = Append(Tail(txQueue),
                                 KeysReq(AllEntries(idb), idb))
            /\ UNCHANGED ret
       ELSE /\ txQueue' = Tail(txQueue)
            /\ ret' = << Ret("getAllFromCache", "", EmptyTable, "resolved") >>
  /\ UNCHANGED << coordVars, db, idb, storeHealth, loadVars, clearWaiters,
                  callVars, waiting >>

\* db.getAllKeys completes: the values read before are paired with the keys
ReadAllKeysCompletes ==
  /\ txQueue # << >>
  /\ Head(txQueue).op = "getAllKeys"
  /\ ret' = << Ret("getAllFromCache", "",
                   getAllFromCache(Head(txQueue).value, SortedKeys(idb)),
                   "resolved") >>
  /\ txQueue' = Tail(txQueue)
  /\ UNCHANGED << coordVars, db, idb, storeHealth, loadVars, clearWaiters,
                  callVars, waiting >>

\* clearDB: with a connection object, close it and request deleteDB;
\* without one, nothing
clearDB ==
  /\ Len(txQueue) < MaxStoreRequests
  /\ IF db \in {"open", "closed"}
       THEN /\ db' = "closed"
            /\ txQueue' = Append(txQueue, Req("delete", "", RecNone, FALSE))
            /\ UNCHANGED ret
       ELSE /\ ret' = << Ret("clearDB", "", NotFound, "resolved") >>
            /\ UNCHANGED << db, txQueue >>
  /\ UNCHANGED << coordVars, idb, storeHealth, loadVars, clearWaiters,
                  callVars, waiting >>

\* deleteDB completes and this.db becomes null, or it fails and the error is
\* swallowed: clearDB resolves
DropCompletes ==
  /\ txQueue # << >>
  /\ Head(txQueue).op = "delete"
  /\ IF storeHealth = "ok"
       THEN idb' = EmptyTable /\ db' = "null"
       ELSE UNCHANGED << idb, db >>
  /\ ret' = << Ret("clearDB", "", NotFound, "resolved") >>
  /\ txQueue' = Tail(txQueue)
  /\ UNCHANGED << coordVars, storeHealth, loadVars, clearWaiters, callVars, waiting >>

StoreNext ==
  \/ \E openOk \in BOOLEAN : dbServiceInit(openOk)
  \/ \E key \in StoreKeys, value \in StoreRecords : saveToCache(key, value)
  \/ \E key \in StoreKeys : getFromCache(key)
  \/ callGetAllFromCache
  \/ clearCache
  \/ clearDB
  \/ SaveCompletes
  \/ GetCompletes
  \/ ReadAllCompletes
  \/ ReadAllKeysCompletes
  \/ CacheClearCompletes
  \/ DropCompletes
  \/ Blocking

\* an application that uses the adapter without the Coordinator
StoreSpec == Init /\ [][StoreNext]_vars

\* ------------------------------------------------ the pipe in a template
\* transform(key, params) and the subscription of the async pipe: startWith
\* and the replay of the BehaviorSubject each emit what instant returns now
transform(key, params) ==
  /\ ~pipe.subscribed
  /\ LET value == pipeMap(initPromise, loadingState, translations,
                          acceptedLanguages, currentLang, key, params)
     IN  /\ pipe' = [subscribed |-> TRUE, key |-> key, params |-> params,
                     value |-> value, loading |-> initPromise = "pending"]
         /\ ret' = << Ret("transform", key, value, "next"),
                      Ret("transform", key, value, "next") >>
  /\ UNCHANGED << coordVars, storeVars, loadVars, clearWaiters, initCallers,
                  openCount, fetchCount, waiting >>

PipeNext ==
  \/ \E config \in Configs : init(config)
  \/ OpenBlocked
  \/ OpenSucceeds
  \/ OpenFails
  \/ \E data \in ResponseTables : FetchOk(data)
  \/ \E outcome \in {"notok", "neterr"} : FetchFails(outcome)
  \/ PutCompletes
  \/ GetAllCompletes
  \/ GetAllKeysCompletes
  \/ \E key \in LookupKeys, params \in ParamArgs : transform(key, params)
  \/ \E langs \in LangCalls : setLanguage(langs)

\* an application that binds one pipe in a template
PipeSpec == Init /\ [][PipeNext]_vars

\* IndexedDB completes the requests of the load; what the application calls,
\* and when, is up to the application
FairPipeSpec == PipeSpec /\ WF_vars(StoreRequestCompletes)

TypeOK ==
  /\ loadingState \in BOOLEAN
  /\ initPromise \in {"null", "pending", "resolved", "rejected"}
  /\ db \in {"undefined", "open", "closed", "null"}
  /\ loadPc \in {"none", "open", "openBlocked", "fetch", "save", "getAll",
                 "getAllKeys", "done"}
  /\ DOMAIN translations \subseteq Keys
  /\ DOMAIN idb \subseteq Keys

\* ------------------------------------------------------------------ claims
BecomesReady == loadingState /\ ~loadingState'

\* how the promise handed to an init caller settles: a call that threw in
\* validateConfig rejects, every other call shares initPromise
InitOutcome(c) == IF c = "threw" THEN "rejected" ELSE initPromise

\* C1: for any number of init calls, at most one store-open and one remote
\* fetch are performed, and the promises of all callers settle with the same
\* outcome.
C1_InitRunsOnce ==
  /\ openCount <= 1
  /\ fetchCount <= 1
  /\ \A c1, c2 \in initCallers :
       (InitOutcome(c1) # "pending" /\ InitOutcome(c2) # "pending")
         => InitOutcome(c1) = InitOutcome(c2)

\* C2: once the remote fetch attempt has terminated, in any outcome, the
\* Coordinator eventually becomes Ready.
C2_EventuallyReady == (fetchResult # "none") ~> (~loadingState)

C2_Witness ==
  /\ fetchResult = "neterr"
  /\ db = "undefined"
  /\ ~loadingState
  /\ initPromise = "resolved"

\* a cache-clear call made when Ready returns in this step
ClearReturnsReady ==
  /\ ~loadingState
  /\ \/ clearModuleCache /\ db # "open"
     \/ clearAllCache /\ db \notin {"open", "closed"}
     \/ ClearCompletes /\ Head(txQueue).ready
     \/ DeleteCompletes /\ Head(txQueue).ready

\* C3: a cache-clear called after Ready re-runs the load, so that when its
\* promise resolves the table holds again what the remote endpoint served.
C3_ClearReloads ==
  [][ (ClearReturnsReady /\ fetchResult = "ok") =>
        \A k \in DOMAIN fetchData :
          k \in DOMAIN translations' /\ translations'[k] = fetchData[k] ]_vars

\* C4: when the fetch succeeded, at the step that makes the Coordinator Ready
\* every key of the response is in memory with the response's record, and is
\* persisted with that record when the store is open and writable.
C4_ResponseLoaded ==
  [][ (BecomesReady /\ fetchResult' = "ok") =>
        \A k \in DOMAIN fetchData' :
          /\ k \in DOMAIN translations'
          /\ translations'[k] = fetchData'[k]
          /\ (db' = "open" /\ storeHealth' = "ok")
               => (k \in DOMAIN idb' /\ idb'[k] = fetchData'[k]) ]_vars

C4_Witness ==
  /\ fetchResult = "ok"
  /\ ~loadingState
  /\ DOMAIN fetchData = {"HELLO", "WORLD"}
  /\ translations = fetchData
  /\ db = "open"
  /\ idb = fetchData

\* C5: when the fetch failed, at the step that makes the Coordinator Ready
\* the in-memory table equals the persisted table, or is empty when the store
\* cannot be read.
StoreUnreadable == db # "open" \/ storeHealth = "broken"

C5_FallbackIsStore ==
  [][ (BecomesReady /\ fetchResult' \in {"notok", "neterr"}) =>
        \/ translations' = idb'
        \/ (StoreUnreadable' /\ translations' = EmptyTable) ]_vars

\* C6: no failure of the network or of the persistent store makes instant
\* throw or makes the promise of translate or setLanguage reject.
C6_NoFailureSurfaces ==
  \A i \in 1..Len(ret) :
    ret[i].op \notin {"onLangChange", "subscribe"} => ret[i].outcome \in {"returned", "resolved"}

C6_Witness ==
  /\ db = "undefined"
  /\ fetchResult = "neterr"
  /\ loadPc = "done"
  /\ Len(ret) = 1
  /\ ret[1].op = "translate"
  /\ ret[1].outcome = "resolved"
  /\ ret[1].val = ret[1].key

\* the lookups: instant without params, and translate
IsLookup(r) == r.op \in {"instant", "translate"}

C8_CurrentLanguageEntry ==
  [][ \A i \in 1..Len(ret') :
        ( /\ ret' # ret
          /\ IsLookup(ret'[i])
          /\ ~loadingState'
          /\ ret'[i].key \in DOMAIN translations'
          /\ HasLang(translations'[ret'[i].key], currentLang') )
          => ret'[i].val = TextOf(translations'[ret'[i].key], currentLang') ]_vars

C8_Witness ==
  /\ ~loadingState
  /\ Len(ret) = 1
  /\ IsLookup(ret[1])
  /\ ret[1].key \in DOMAIN translations
  /\ HasLang(translations[ret[1].key], currentLang)
  /\ TextOf(translations[ret[1].key], currentLang) = ""
  /\ ret[1].val = ""
  /\ acceptedLanguages # << >>

\* C9: a lookup of a key whose record has no entry for the current language
\* but has one for the first accepted language d returns exactly r[d],
\* whatever its value.
C9_FirstAcceptedEntry ==
  [][ \A i \in 1..Len(ret') :
        ( /\ ret' # ret
          /\ IsLookup(ret'[i])
          /\ ret'[i].key \in DOMAIN translations'
          /\ ~HasLang(translations'[ret'[i].key], currentLang')
          /\ HasLang(translations'[ret'[i].key], FirstAccepted(acceptedLanguages')) )
          => ret'[i].val = TextOf(translations'[ret'[i].key],
                                  FirstAccepted(acceptedLanguages')) ]_vars

ResolvedString(key) ==
  IF initPromise = "null" THEN key
  ELSE IF loadingState
    THEN getTranslationFallback(translations, acceptedLanguages, key)
    ELSE getTranslation(translations, acceptedLanguages, currentLang, key)

\* every placeholder of str named in params replaced by its value, all at
\* once; the other pieces, and the inserted values, as they are
Substituted(str, params) ==
  IF ~params.given THEN str
  ELSE LET ps == Pieces(str)
           named(p) == \E i \in 1..Len(params.entries) :
                         p = Placeholder(params.entries[i].name)
           valueOf(p) == params.entries[CHOOSE i \in 1..Len(params.entries) :
                                          p = Placeholder(params.entries[i].name)].value
       IN  Join([i \in 1..Len(ps) |-> IF named(ps[i]) THEN valueOf(ps[i]) ELSE ps[i]])

\* C11: instant(key, params) returns the resolved string with each {name}
\* placeholder named in params replaced by params[name], the other
\* placeholders verbatim and the inserted values not substituted again; with
\* params absent the resolved string is returned unchanged.
C11_ParamsSubstituted ==
  [][ \A key \in LookupKeys, params \in ParamArgs :
        instant(key, params) =>
          ret'[1].val = Substituted(ResolvedString(key), params) ]_vars

\* C12: a translate call does not resolve while the Coordinator is Loading
\* (the load started by init is in progress) and stays pending meanwhile; when
\* it resolves, its value is what instant(key) without params returns in that
\* state.
C12_TranslateWaitsForReady ==
  [][ /\ \A i \in 1..Len(ret') :
           (ret' # ret /\ ret'[i].op = "translate") =>
             /\ initPromise' # "pending"
             /\ ret'[i].outcome = "resolved"
             /\ ret'[i].val = instantResult(initPromise', loadingState', translations',
                                            acceptedLanguages', currentLang', ret'[i].key)
      /\ (initPromise' = "pending") =>
           (Len(waiting') >= Len(waiting) /\ SubSeq(waiting', 1, Len(waiting)) = waiting) ]_vars

\* a translate call is pending while the fetch hangs, and instant has returned
C12_Witness ==
  /\ initPromise = "pending"
  /\ loadPc = "fetch"
  /\ waiting = << "HELLO" >>
  /\ Len(ret) = 1
  /\ ret[1].op = "instant"
  /\ ret[1].outcome = "returned"

LangChanges(r) == SelectSeq(r, LAMBDA x : x.op = "onLangChange")

\* the language a setLanguage call resolves to
LangAfter(lang) ==
  IF loadingState \/ (\E i \in 1..Len(acceptedLanguages) : acceptedLanguages[i] = lang)
    THEN lang
    ELSE FirstAccepted(acceptedLanguages)

\* C14: every setLanguage call emits exactly one notification, after the
\* current language was updated and carrying it, also when it equals the
\* previous one; the notifications of a sequence of calls come in the order
\* of the calls.
C14_OneNotificationPerCall ==
  [][ /\ (ret' # ret /\ ret' # << >> /\ ret'[Len(ret')].op = "setLanguage"
                     /\ initPromise # "rejected") =>
           LET calls == SelectSeq(ret', LAMBDA x : x.op = "setLanguage")
               notes == LangChanges(ret')
           IN  /\ Len(notes) = Len(calls)
               /\ \A i \in 1..Len(calls) : notes[i].val = LangAfter(calls[i].key)
               /\ notes[Len(notes)].val = currentLang'
      /\ (initPromise' # initPromise /\ initPromise = "null") =>
           /\ Len(LangChanges(ret')) = 1
           /\ LangChanges(ret')[1].val = currentLang' ]_vars

\* two calls resolved to the same language, two notifications
C14_Witness ==
  /\ ~loadingState
  /\ acceptedLanguages = << "en", "fr" >>
  /\ Len(LangChanges(ret)) = 2
  /\ LangChanges(ret)[1].val = "fr"
  /\ LangChanges(ret)[2].val = "fr"
  /\ currentLang = "fr"

\* C15: a new subscriber of the language-change stream is handed at once
\* the current language, in every reachable state; every later change of
\* the language reaches the subscribers, the latest value last.
C15_SubscriberSeesLanguage ==
  [][ /\ subscribe => (Len(ret') = 1 /\ ret'[1].op = "subscribe"
                                      /\ ret'[1].val = currentLang)
      /\ langChangeSubject' = currentLang'
      /\ (currentLang' # currentLang) =>
           /\ LangChanges(ret') # << >>
           /\ LangChanges(ret')[Len(LangChanges(ret'))].val = currentLang'
      /\ (ret' # ret /\ LangChanges(ret') # << >>) =>
           LangChanges(ret')[Len(LangChanges(ret'))].val = langChangeSubject' ]_vars

\* subscribing when Ready, after the language was set to one outside the list
C15_Witness ==
  /\ ~loadingState
  /\ Len(ret) = 1
  /\ ret[1].op = "subscribe"
  /\ ret[1].val = "de"
  /\ currentLang = "de"
  /\ acceptedLanguages = << "en", "fr" >>

\* C16: init with a configuration that violates the configuration
\* invariants (list missing or empty, default language not in the list) does
\* not fail: the promise of no init call rejects.
C16_ViolationIsWarning ==
  \A c \in initCallers : InitOutcome(c) # "rejected"

\* C17: on an opened store that takes the requests, a get that follows a put
\* on the same key returns the record put (the later put when there were
\* two), a get that follows a clear returns not-found for every key, and
\* the store stays open after a clear, for further puts.
C17_PutGetClear ==
  [][ /\ (GetCompletes /\ db = "open" /\ storeHealth = "ok" /\ ret # << >>) =>
           /\ (ret[1].op = "saveToCache" /\ ret[1].key = ret'[1].key)
                 => ret'[1].val = ret[1].val
           /\ ret[1].op = "clearCache" => ret'[1].val = NotFound
      /\ (CacheClearCompletes /\ db = "open") => db' = "open" ]_vars

\* a record read back from the open store, where it is the record of its key
C17_Witness ==
  /\ db = "open"
  /\ storeHealth = "ok"
  /\ Len(ret) = 1
  /\ ret[1].op = "getFromCache"
  /\ ret[1].key = "HELLO"
  /\ ret[1].val = Found(RecNone)
  /\ idb = TablePut(TableOf("", RecEnFr), "HELLO", RecNone)

\* C18: in every Ready state the current language is a member of the
\* accepted-language list.
C18_ReadyLanguageAccepted ==
  ~loadingState =>
    \E i \in 1..Len(acceptedLanguages) : acceptedLanguages[i] = currentLang

\* a step of a cache-clear call
CacheClearStep ==
  clearModuleCache \/ clearAllCache \/ ClearCompletes \/ DeleteCompletes

\* C19: once Ready, no init, instant, translate, setLanguage or
\* isLanguageSupported call, and no event other than a step of a cache-clear,
\* returns the Coordinator to a not-ready state.
C19_ReadyIsStable ==
  [][ (~loadingState /\ ~CacheClearStep) => ~loadingState' ]_vars

\* Ready, after a second init call and a membership test that answered false
C19_Witness ==
  /\ ~loadingState
  /\ initPromise = "resolved"
  /\ initCallers = {"shared"}
  /\ Len(ret) = 1
  /\ ret[1].op = "isLanguageSupported"
  /\ ret[1].val = FALSE
  /\ acceptedLanguages # << >>

\* C20: isLanguageSupported(lang) returns true for every lang while Loading,
\* and in every other state (never initialized, Ready) true exactly when
\* lang is in the accepted-language list.
C20_SupportedByState ==
  [][ \A lang \in LangArgs :
        callIsLanguageSupported(lang) =>
          ret'[1].val =
            IF initPromise = "pending" THEN TRUE
            ELSE \E i \in 1..Len(acceptedLanguages) : acceptedLanguages[i] = lang ]_vars

\* ------------------------------------------------------------------- C21
\* the writes of the bulk load that have not completed yet
PendingPuts == SelectSeq(txQueue, LAMBDA q : q.op = "put")

Reordered(reqs, p) == [i \in 1..Len(reqs) |-> reqs[p[i]]]

RECURSIVE StoreAfter(_, _)
StoreAfter(store, reqs) ==
  IF reqs = << >> THEN store
  ELSE StoreAfter(dbPut(store, Head(reqs).key, Head(reqs).value), Tail(reqs))

RECURSIVE MemoryAfter(_, _)
MemoryAfter(tr, reqs) ==
  IF reqs = << >> THEN tr
  ELSE MemoryAfter(afterSave(tr, Head(reqs).key, Head(reqs).value, TRUE), Tail(reqs))

StoreCall ==
  \/ \E key \in StoreKeys, value \in StoreRecords : saveToCache(key, value)
  \/ \E key \in StoreKeys : getFromCache(key)
  \/ callGetAllFromCache
  \/ clearCache

LookupCall ==
  \/ \E key \in LookupKeys, params \in ParamArgs : instant(key, params)
  \/ \E key \in LookupKeys : translate(key)
  \/ \E langs \in LangCalls : setLanguage(langs)
  \/ \E lang \in LangArgs : callIsLanguageSupported(lang)

\* a step of loadTranslations: the fetch settles, a write or a read of the
\* store completes
LoadStep ==
  \/ \E data \in ResponseTables : FetchOk(data)
  \/ \E outcome \in {"notok", "neterr"} : FetchFails(outcome)
  \/ PutCompletes
  \/ GetAllCompletes
  \/ GetAllKeysCompletes

\* C23: a step that changes the in-memory table or the persistent store is
\* never a call of instant, translate, setLanguage or isLanguageSupported;
\* it is a step of the load sequence or of a cache-clear operation.
C23_OnlyLoadAndClearWrite ==
  [][ (translations' # translations \/ idb' # idb) =>
        /\ ~LookupCall
        /\ LoadStep \/ CacheClearStep ]_vars

\* the language was switched in Ready; the loaded table and the store are
\* still there
C23_Witness ==
  /\ ~loadingState
  /\ currentLang = "fr"
  /\ Len(ret) = 2
  /\ ret[2].op = "setLanguage"
  /\ ret[2].outcome = "resolved"
  /\ translations = TablePut(TableOf("HELLO", RecFrEn), "WORLD", RecEnFr)
  /\ idb = translations

\* ------------------------------------------------------------------- C24
\* a cache-clear that was called during the load has returned and init has
\* completed: the later of the two happens in this step
ClearAndInitDone ==
  \/ (ClearCompletes \/ DeleteCompletes) /\ ~Head(txQueue).ready
       /\ initPromise = "resolved"
  \/ BecomesReady /\ clearWaiters > 0

\* C24: when a cache-clear was called while the initial load was in progress
\* and the fetch succeeded, then once both the clear and init have completed
\* every key of the response is in the in-memory table.
C24_ClearKeepsLoad ==
  [][ (ClearAndInitDone /\ fetchResult' = "ok") =>
        \A k \in DOMAIN fetchData' : k \in DOMAIN translations' ]_vars

\* ------------------------------------------------------------------- C25
\* every key of the mapping m has in m the record it has in the table
PairedAsIn(m, store) ==
  \A k \in DOMAIN m : k \in DOMAIN store /\ m[k] = store[k]

\* C25: the mapping getAllFromCache returns pairs every key with the record
\* stored under that key in one snapshot of the store (the store as it was
\* when the values were read, or as it is when the keys are read), also when
\* a put or a clear took effect between the two reads.
C25_GetAllIsSnapshot ==
  [][ ReadAllKeysCompletes =>
        \/ PairedAsIn(ret'[1].val, Head(txQueue).readAt)
        \/ PairedAsIn(ret'[1].val, idb) ]_vars

\* ------------------------------------------------------------------- C26
\* C26: when init completes after a successful fetch, with the store open and
\* writable and no cache-clear call pending, the persisted table equals the
\* in-memory table: no key of an earlier run remains in the store.
C26_StoreEqualsMemory ==
  [][ (BecomesReady /\ fetchResult' = "ok" /\ db' = "open" /\ storeHealth' = "ok"
         /\ ClearsInFlight = 0) =>
        idb' = translations' ]_vars

\* ------------------------------------------------------------------- C27
\* what instant(key, params) returns in the current state
InstantNow(key, params) ==
  pipeMap(initPromise, loadingState, translations, acceptedLanguages,
          currentLang, key, params)

\* C27: for a pipe subscribed while the Coordinator was Loading, once the
\* Coordinator is Ready the last value the pipe emitted eventually equals
\* what instant(key, params) returns, whether or not setLanguage is called.
C27_PipeFollowsLoad ==
  (pipe.subscribed /\ pipe.loading /\ ~loadingState /\ initPromise = "resolved")
    ~> (pipe.value = InstantNow(pipe.key, pipe.params))

====
